---- MODULE Spec2Model ----
(***************************************************************************)
(* A model of src/file_sorter/mod.rs: FileSorter (sort_files,              *)
(* sort_single_file, detect_html_category), HtmlCategory and SortingReport.*)
(*                                                                         *)
(* Strings are TLA+ strings.  An OsStr or a file's bytes are strings in    *)
(* which the character "~" stands for a byte that is not valid UTF-8.      *)
(* A path is a sequence of components below one root directory; the file   *)
(* system is a function from the existing paths to their nodes.            *)
(***************************************************************************)
EXTENDS Integers, Sequences, FiniteSets, TLC

VARIABLES
    source_dir,   \* FileSorter.source_dir
    target_dir,   \* FileSorter.target_dir
    fs,           \* the file system: existing path -> node
    pc,           \* position of sort_files: "idle", "loop", "done", "failed"
    entries,      \* the names fs::read_dir listed
    visited,      \* the names the for loop has taken so far
    report,       \* the SortingReport of the current run
    result,       \* what sort_files returned to its caller
    written,      \* history: <<source path, destination path>> of each completed copy of this run
    faulted,      \* history: an I/O operation of this run has failed
    afterFault,   \* history: copies completed after an I/O operation of this run failed
    fs_before,    \* history: the file system when the current run started
    history,      \* history: [fs, report] at the end of each successful run
    detected,     \* the last call of detect_html_category: <<[path, res]>>, or <<>>
    lastCall      \* the last call of add_file_moved: <<[ext, folder, name, before]>>, or <<>>

vars == <<source_dir, target_dir, fs, pc, entries, visited, report, result,
          written, faulted, afterFault, fs_before, history, detected, lastCall>>

(***************************************************************************)
(* Bounds of the model.                                                    *)
(***************************************************************************)
MaxFiles == 2     \* regular files directly inside the source directory
MaxRuns == 2      \* successive runs of sort_files
MaxCalls == 3     \* add_file_moved calls on one report (SpecReport)

(***************************************************************************)
(* Strings: str::to_lowercase, str::contains, str::starts_with, to_str.    *)
(***************************************************************************)
UpperChars == "ABCDEFGHIJKLMNOPQRSTUVWXYZ"
LowerChars == "abcdefghijklmnopqrstuvwxyz"

CharAt(s, i) == SubSeq(s, i, i)

LowerOf ==
    [c \in {CharAt(UpperChars, i) : i \in 1..Len(UpperChars)} |->
        CharAt(LowerChars, CHOOSE i \in 1..Len(UpperChars) : CharAt(UpperChars, i) = c)]

LowerChar(c) == IF c \in DOMAIN LowerOf THEN LowerOf[c] ELSE c

RECURSIVE to_lowercase(_)
to_lowercase(s) ==
    IF s = "" THEN ""
    ELSE LowerChar(CharAt(s, 1)) \o to_lowercase(SubSeq(s, 2, Len(s)))

contains(s, pat) ==
    \E i \in 1..(Len(s) - Len(pat) + 1) : SubSeq(s, i, i + Len(pat) - 1) = pat

starts_with(s, pat) ==
    Len(s) >= Len(pat) /\ SubSeq(s, 1, Len(pat)) = pat

\* OsStr::to_str succeeds exactly on valid UTF-8
to_str_ok(s) == ~contains(s, "~")

(***************************************************************************)
(* Paths: Path::file_name, Path::extension, Path::file_stem, Path::join.   *)
(***************************************************************************)
LastDot(s) ==
    IF \E i \in 1..Len(s) : CharAt(s, i) = "."
    THEN CHOOSE i \in 1..Len(s) :
            CharAt(s, i) = "." /\ \A j \in (i + 1)..Len(s) : CharAt(s, j) # "."
    ELSE 0

\* no dot, or only a leading dot, or "..": the name has no extension
HasExtension(name) == name # ".." /\ LastDot(name) > 1

ExtensionOf(name) == SubSeq(name, LastDot(name) + 1, Len(name))

StemOf(name) ==
    IF HasExtension(name) THEN SubSeq(name, 1, LastDot(name) - 1) ELSE name

FileNameOf(path) == path[Len(path)]

RECURSIVE Components(_)
\* the components of a relative path string, split at "/"
Components(s) ==
    IF s = "" THEN <<>>
    ELSE LET slash == IF \E i \in 1..Len(s) : CharAt(s, i) = "/"
                      THEN CHOOSE i \in 1..Len(s) :
                              CharAt(s, i) = "/" /\ \A j \in 1..(i - 1) : CharAt(s, j) # "/"
                      ELSE 0
         IN  IF slash = 0 THEN <<s>>
             ELSE (IF slash = 1 THEN <<>> ELSE <<SubSeq(s, 1, slash - 1)>>)
                  \o Components(SubSeq(s, slash + 1, Len(s)))

PathJoin(dir, s) == dir \o Components(s)

IsPrefix(p, q) == Len(p) <= Len(q) /\ SubSeq(q, 1, Len(p)) = p

(***************************************************************************)
(* The file system.                                                        *)
(***************************************************************************)
DirNode == [kind |-> "dir", content |-> ""]
FileNode(c) == [kind |-> "file", content |-> c]

Exists(f, p) == p \in DOMAIN f
is_file(f, p) == Exists(f, p) /\ f[p].kind = "file"
is_dir(f, p) == Exists(f, p) /\ f[p].kind = "dir"

Put(f, p, node) == [q \in DOMAIN f \cup {p} |-> IF q = p THEN node ELSE f[q]]

\* the names directly inside directory d
Children(f, d) == {p[Len(p)] : p \in {q \in DOMAIN f : Len(q) = Len(d) + 1 /\ IsPrefix(d, q)}}

Prefixes(p) == {SubSeq(p, 1, k) : k \in 1..Len(p)}

\* the directories fs::create_dir_all has to make, top down
MissingDirs(f, p) == {q \in Prefixes(p) : ~Exists(f, q)}

\* fs::create_dir_all fails by itself when a component of the path is a file
create_dir_all_ok(f, p) == \A q \in Prefixes(p) : ~is_file(f, q)

\* the directories of p shallower than depth d made (d = Len(p) + 1: all of them)
MakeDirs(f, p, d) ==
    [q \in DOMAIN f \cup {r \in MissingDirs(f, p) : Len(r) < d} |->
        IF Exists(f, q) THEN f[q] ELSE DirNode]

create_dir_all(f, p) == MakeDirs(f, p, Len(p) + 1)

\* fs::copy fails by itself when the destination is a directory
copy_ok(f, from, to) == is_file(f, from) /\ ~is_dir(f, to)

\* fs::copy opens the destination with truncate before it reads the source:
\* copying a file onto itself leaves it empty
copy(f, from, to) ==
    IF from = to THEN Put(f, to, FileNode(""))
    ELSE Put(f, to, FileNode(f[from].content))

\* faulty variant: the bytes are taken as they are (a lossy read) instead of ""
read_to_string_lossy(f, p) ==
    IF is_file(f, p) THEN f[p].content ELSE ""

\* fs::read_to_string(..).unwrap_or_default(): "" when the content is not UTF-8
read_to_string_or_default(f, p) ==
    IF is_file(f, p) /\ to_str_ok(f[p].content) THEN f[p].content ELSE ""

(***************************************************************************)
(* HtmlCategory and the categorizer.                                       *)
(***************************************************************************)
HtmlCategory == {"Index", "Template", "Component", "Page", "Unknown"}

folder_name(category) ==
    CASE category = "Index" -> "index"
      [] category = "Template" -> "templates"
      [] category = "Component" -> "components"
      [] category = "Page" -> "pages"
      [] category = "Unknown" -> "other"

\* a Result<HtmlCategory>
OkCategory(c) == [ok |-> TRUE, category |-> c]

detect_html_category_by_content(f, path) ==
    LET content == to_lowercase(read_to_string_or_default(f, path))
    IN  IF contains(content, "template") \/ contains(content, "layout")
        THEN OkCategory("Template")
        ELSE IF contains(content, "component") \/ contains(content, "widget")
        THEN OkCategory("Component")
        ELSE IF contains(content, "<html") /\ contains(content, "<head")
        THEN OkCategory("Page")
        ELSE OkCategory("Unknown")

\* faulty variant: the content is looked at before the file name patterns
detect_html_category_content_first(f, path) ==
    LET stem == StemOf(FileNameOf(path))
        file_name == to_lowercase(IF to_str_ok(stem) THEN stem ELSE "")
        by_content == detect_html_category_by_content(f, path)
    IN  IF by_content.category # "Unknown" THEN by_content
        ELSE IF file_name \in {"index", "home", "main"} THEN OkCategory("Index")
        ELSE IF contains(file_name, "template") \/ contains(file_name, "layout")
        THEN OkCategory("Template")
        ELSE IF contains(file_name, "component") \/ starts_with(file_name, "comp_")
        THEN OkCategory("Component")
        ELSE by_content

detect_html_category(f, path) ==
    LET stem == StemOf(FileNameOf(path))
        file_name == to_lowercase(IF to_str_ok(stem) THEN stem ELSE "")
    IN  IF file_name \in {"index", "home", "main"} THEN OkCategory("Index")
        ELSE IF contains(file_name, "template") \/ contains(file_name, "layout")
        THEN OkCategory("Template")
        ELSE IF contains(file_name, "component") \/ starts_with(file_name, "comp_")
        THEN OkCategory("Component")
        ELSE detect_html_category_by_content(f, path)

(***************************************************************************)
(* SortingReport.                                                          *)
(***************************************************************************)
SortingReport_new == [files_moved |-> <<>>, total_files |-> 0]

ReportKey(extension, folder) == extension \o " -> " \o folder

\* faulty variant: the list of the key is replaced instead of extended
add_file_moved_replace(rep, extension, folder, filename) ==
    LET key == ReportKey(extension, folder)
    IN  [files_moved |-> [k \in DOMAIN rep.files_moved \cup {key} |->
                            IF k = key THEN <<filename>> ELSE rep.files_moved[k]],
         total_files |-> rep.total_files + 1]

add_file_moved(rep, extension, folder, filename) ==
    LET key == ReportKey(extension, folder)
        old == IF key \in DOMAIN rep.files_moved THEN rep.files_moved[key] ELSE <<>>
    IN  [files_moved |-> [k \in DOMAIN rep.files_moved \cup {key} |->
                            IF k = key THEN Append(old, filename) ELSE rep.files_moved[k]],
         total_files |-> rep.total_files + 1]

(***************************************************************************)
(* sort_single_file.  `fault` is the I/O failure the environment injects   *)
(* into this call: at "none", "mkdir" (fs::create_dir_all) or "copy"       *)
(* (fs::copy); partial says whether the failed operation had begun to      *)
(* write.  The outcome is [ok, fs, report, dest]: Ok(()) or Err, the file  *)
(* system and the report after the call, and <<destination>> of a          *)
(* completed copy.                                                         *)
(***************************************************************************)
Faults ==
    {[at |-> "none", partial |-> FALSE]}
    \cup [at : {"mkdir", "copy"}, partial : BOOLEAN]

Failed(f, rep) == [ok |-> FALSE, fs |-> f, report |-> rep, dest |-> <<>>]

FileNameStr(path) ==
    IF to_str_ok(FileNameOf(path)) THEN FileNameOf(path) ELSE "unknown"

ExtensionStr(path) ==
    LET name == FileNameOf(path)
    IN  to_lowercase(IF HasExtension(name) /\ to_str_ok(ExtensionOf(name))
                     THEN ExtensionOf(name) ELSE "no_extension")

IsHtmlExt(extension) == extension = "html" \/ extension = "htm"

\* faulty variant: add_file_moved is called before fs::copy has succeeded
copy_and_record_early(f, rep, path, target_path, extension, target_folder, file_name, fault) ==
    LET rep1 == add_file_moved(rep, extension, target_folder, file_name)
    IN  IF ~copy_ok(f, path, target_path) THEN Failed(f, rep1)
        ELSE IF fault.at = "copy"
        THEN Failed(IF fault.partial THEN Put(f, target_path, FileNode("")) ELSE f, rep1)
        ELSE [ok |-> TRUE, fs |-> copy(f, path, target_path), report |-> rep1,
              dest |-> <<target_path>>]

\* lines 78-83: fs::copy(file_path, &target_path)?; report.add_file_moved(..)
copy_and_record(f, rep, path, target_path, extension, target_folder, file_name, fault) ==
    IF ~copy_ok(f, path, target_path) THEN Failed(f, rep)
    ELSE IF fault.at = "copy"
    THEN Failed(IF fault.partial THEN Put(f, target_path, FileNode("")) ELSE f, rep)
    ELSE [ok |-> TRUE, fs |-> copy(f, path, target_path),
          report |-> add_file_moved(rep, extension, target_folder, file_name),
          dest |-> <<target_path>>]

\* lines 65-72: the destination subfolder
target_folder(f, path) ==
    IF IsHtmlExt(ExtensionStr(path))
    THEN "html/" \o folder_name(detect_html_category(f, path).category)
    ELSE ExtensionStr(path)

sort_single_file(f, rep, path, fault) ==
    LET tdir == PathJoin(target_dir, target_folder(f, path))
    IN  IF IsHtmlExt(ExtensionStr(path)) /\ ~detect_html_category(f, path).ok
        THEN Failed(f, rep)
        ELSE IF ~create_dir_all_ok(f, tdir) THEN Failed(f, rep)
        ELSE IF fault.at = "mkdir" /\ MissingDirs(f, tdir) # {}
        THEN Failed(IF fault.partial THEN MakeDirs(f, tdir, Len(tdir)) ELSE f, rep)
        ELSE copy_and_record(create_dir_all(f, tdir), rep, path,
                             PathJoin(tdir, FileNameStr(path)), ExtensionStr(path),
                             target_folder(f, path), FileNameStr(path), fault)

(***************************************************************************)
(* Initial states: a source directory holding at most MaxFiles regular     *)
(* files (and possibly a subdirectory with a file of its own), and a       *)
(* target directory that is apart from the source, the source itself,      *)
(* inside the source, or the parent of the source.                         *)
(***************************************************************************)
NamePool ==
    {"index.html", "P.HTM", "a.txt", "README", "a.", "~.txt", "~.TXT", "~.htm"}

HtmlContents == {"<html><head>", "~"}

ContentsFor(name) ==
    IF IsHtmlExt(ExtensionStr(<<name>>)) THEN HtmlContents ELSE {"data of " \o name}

\* <<source_dir, target_dir>>
Layouts ==
    { <<(<<"s">>), (<<"t">>)>>,
      <<(<<"s">>), (<<"s">>)>>,
      <<(<<"s">>), (<<"s", "out">>)>>,
      <<(<<"t", "txt">>), (<<"t">>)>> }

\* the file system with directory src holding `files` (name -> content)
InitialFs(src, files, withSub) ==
    LET dirs == Prefixes(src) \cup (IF withSub THEN {src \o <<"sub">>} ELSE {})
        deep == IF withSub THEN {src \o <<"sub", "in.txt">>} ELSE {}
        top == {src \o <<n>> : n \in DOMAIN files}
    IN  [p \in dirs \cup deep \cup top |->
            IF p \in dirs THEN DirNode
            ELSE IF p \in deep THEN FileNode("deep")
            ELSE FileNode(files[p[Len(p)]])]

Quiet ==
    /\ pc = "idle"
    /\ entries = {}
    /\ visited = {}
    /\ report = SortingReport_new
    /\ result = [tag |-> "None", value |-> <<>>]
    /\ written = <<>>
    /\ faulted = FALSE
    /\ afterFault = 0
    /\ history = <<>>
    /\ detected = <<>>
    /\ lastCall = <<>>

Init ==
    /\ \E layout \in Layouts :
          /\ source_dir = layout[1]
          /\ target_dir = layout[2]
    /\ \E names \in {S \in SUBSET NamePool : Cardinality(S) <= MaxFiles} :
       \E files \in [names -> UNION {ContentsFor(n) : n \in names}] :
       \E withSub \in BOOLEAN :
          /\ \A n \in names : files[n] \in ContentsFor(n)
          /\ fs = InitialFs(source_dir, files, withSub)
    /\ fs_before = fs
    /\ Quiet

(***************************************************************************)
(* sort_files, one action per step of the function.                        *)
(***************************************************************************)
\* where `?` takes sort_files on an Err: the function returns it
AfterErrorContinue == "loop"

AfterError == "failed"

Err == [tag |-> "Err", value |-> <<>>]
Ok(rep) == [tag |-> "Ok", value |-> <<rep>>]

\* lines 33-39: the report is made, the target directory ensured, the source listed
\* (the listing is the source directory as it is when the loop begins: what a run
\* adds to the directory afterwards is not part of it)
Start ==
    /\ pc = "idle"
    /\ report' = SortingReport_new
    /\ written' = <<>>
    /\ afterFault' = 0
    /\ visited' = {}
    /\ fs_before' = fs
    /\ \E fault \in {"none", "mkdir", "read_dir"} :
          IF ~create_dir_all_ok(fs, target_dir)
             \/ (fault = "mkdir" /\ MissingDirs(fs, target_dir) # {})
          THEN /\ fs' = fs
               /\ entries' = {}
               /\ faulted' = TRUE
               /\ pc' = AfterError
               /\ result' = Err
          ELSE IF fault = "read_dir" \/ ~is_dir(create_dir_all(fs, target_dir), source_dir)
          THEN /\ fs' = create_dir_all(fs, target_dir)
               /\ entries' = {}
               /\ faulted' = TRUE
               /\ pc' = AfterError
               /\ result' = Err
          ELSE /\ fs' = create_dir_all(fs, target_dir)
               /\ entries' = Children(fs', source_dir)
               /\ faulted' = FALSE
               /\ pc' = "loop"
               /\ result' = [tag |-> "None", value |-> <<>>]
    /\ UNCHANGED <<source_dir, target_dir, history, detected, lastCall>>

\* lines 41-48: one iteration of the loop, on an entry not yet taken;
\* the order of the entries is the operating system's
ProcessEntry ==
    /\ pc = "loop"
    /\ \E name \in entries \ visited :
       \E fault \in Faults \cup {[at |-> "entry", partial |-> FALSE]} :
          LET path == source_dir \o <<name>> IN
          \E res \in {IF fault.at = "entry" THEN Failed(fs, report)
                     ELSE IF is_file(fs, path)
                     THEN sort_single_file(fs, report, path, fault)
                     ELSE [ok |-> TRUE, fs |-> fs, report |-> report, dest |-> <<>>]} :
              /\ fault.at \in {"mkdir", "copy"} => ~res.ok
              /\ visited' = visited \cup {name}
              /\ fs' = res.fs
              /\ report' = res.report
              /\ written' = IF res.dest # <<>>
                            THEN Append(written, <<path, res.dest[1]>>)
                            ELSE written
              /\ afterFault' = IF faulted /\ res.dest # <<>>
                               THEN afterFault + 1 ELSE afterFault
              /\ faulted' = (faulted \/ ~res.ok)
              /\ pc' = IF res.ok THEN "loop" ELSE AfterError
              /\ result' = IF res.ok THEN result ELSE Err
    /\ UNCHANGED <<source_dir, target_dir, entries, fs_before, history, detected, lastCall>>

\* line 50: Ok(report)
Finish ==
    /\ pc = "loop"
    /\ entries \subseteq visited
    /\ pc' = "done"
    /\ result' = Ok(report)
    /\ history' = Append(history, [fs |-> fs, report |-> report])
    /\ UNCHANGED <<source_dir, target_dir, fs, entries, visited, report, written,
                   faulted, afterFault, fs_before, detected, lastCall>>

\* the caller runs sort_files again on the same FileSorter
Rerun ==
    /\ pc = "done"
    /\ Len(history) < MaxRuns
    /\ pc' = "idle"
    /\ UNCHANGED <<source_dir, target_dir, fs, entries, visited, report, result, written,
                   faulted, afterFault, fs_before, history, detected, lastCall>>

Next == Start \/ ProcessEntry \/ Finish

\* one run of sort_files
Spec == Init /\ [][Next]_vars

NextTwice == Start \/ ProcessEntry \/ Finish \/ Rerun

\* up to MaxRuns runs of sort_files, each after the one before has succeeded
SpecTwice == Init /\ [][NextTwice]_vars

(***************************************************************************)
(* The categorizer on its own: one .html or .htm file, its name and its    *)
(* content drawn from pools that reach every rule, and one call.           *)
(***************************************************************************)
DetectNames ==
    {"index.html", "HOME.htm", "main.html", "Index.HTML", "indexes.html",
     "index.tar.html", "my_template.html", "Layout.htm", "a_component.html",
     "comp_nav.html", "xcomp_.html", "about.html", "~.html", "~index.html"}

DetectContents ==
    {"", "<html><head>", "<HTML><HEAD>", "<html>", "<head>", "a Template", "page layout",
     "Component", "widget", "widget layout", "<html><head>widget", "component template",
     "~", "~layout", "~<html><head>"}

InitDetect ==
    /\ source_dir = <<"s">>
    /\ target_dir = <<"t">>
    /\ \E name \in DetectNames : \E content \in DetectContents :
          fs = InitialFs(source_dir, [n \in {name} |-> content], FALSE)
    /\ fs_before = fs
    /\ Quiet

Detect ==
    /\ detected = <<>>
    /\ \E name \in Children(fs, source_dir) :
          LET path == source_dir \o <<name>>
          IN  detected' = <<[path |-> path, res |-> detect_html_category(fs, path)]>>
    /\ UNCHANGED <<source_dir, target_dir, fs, pc, entries, visited, report, result,
                   written, faulted, afterFault, fs_before, history, lastCall>>

SpecDetect == InitDetect /\ [][Detect]_vars

(***************************************************************************)
(* The report on its own: any sequence of at most MaxCalls calls of        *)
(* add_file_moved on a new report.                                         *)
(***************************************************************************)
CallExtensions == {"txt", "html"}
CallFolders == {"txt", "html/index"}
CallNames == {"a.txt", "index.html", "unknown"}

InitReport ==
    /\ source_dir = <<"s">>
    /\ target_dir = <<"t">>
    /\ fs = InitialFs(source_dir, <<>>, FALSE)
    /\ fs_before = fs
    /\ Quiet

AddFileMoved ==
    /\ report.total_files < MaxCalls
    /\ \E extension \in CallExtensions, folder \in CallFolders, filename \in CallNames :
          /\ report' = add_file_moved(report, extension, folder, filename)
          /\ lastCall' = <<[extension |-> extension, folder |-> folder,
                            filename |-> filename, before |-> report]>>
    /\ UNCHANGED <<source_dir, target_dir, fs, pc, entries, visited, result,
                   written, faulted, afterFault, fs_before, history, detected>>

SpecReport == InitReport /\ [][AddFileMoved]_vars

(***************************************************************************)
(* Properties of the categorizer (SpecDetect).                             *)
(***************************************************************************)
\* the lowercased stem as the categorizer reads it ("" when it is not text)
LoweredStem(path) ==
    LET stem == StemOf(FileNameOf(path))
    IN  IF to_str_ok(stem) THEN to_lowercase(stem) ELSE ""

\* the lowercased content ("" when it is not text)
LoweredContent(f, path) ==
    IF to_str_ok(f[path].content) THEN to_lowercase(f[path].content) ELSE ""

\* the decision order as the specification lists it, first match first
RuleHolds(stem, content) ==
    << stem = "index" \/ stem = "home" \/ stem = "main",
       contains(stem, "template") \/ contains(stem, "layout"),
       contains(stem, "component") \/ starts_with(stem, "comp_"),
       contains(content, "template") \/ contains(content, "layout"),
       contains(content, "component") \/ contains(content, "widget"),
       contains(content, "<html") /\ contains(content, "<head"),
       TRUE >>

RuleGives ==
    <<"Index", "Template", "Component", "Template", "Component", "Page", "Unknown">>

FirstMatch(stem, content) ==
    CHOOSE i \in 1..Len(RuleGives) :
        /\ RuleHolds(stem, content)[i]
        /\ \A j \in 1..(i - 1) : ~RuleHolds(stem, content)[j]

\* rules 1 to 3 read the file name only
IsNameRule(i) == i \in {1, 2, 3}

\* C2: detect_html_category returns the category of the first rule that matches, in
\* the order: stem is index/home/main, stem has template/layout, stem has component
\* or starts with comp_, content has template/layout, content has component/widget,
\* content has both <html and <head, else Unknown; and when a file name rule matches,
\* the result is the same whatever the content is.
C2_FirstMatchWins ==
    \A i \in 1..Len(detected) :
        LET d == detected[i]
            stem == LoweredStem(d.path)
            first == FirstMatch(stem, LoweredContent(fs, d.path))
        IN  /\ d.res.ok
            /\ d.res.category = RuleGives[first]
            /\ FileNameOf(d.path) = "index.html" => d.res.category = "Index"
            /\ IsNameRule(first) =>
                  \A c \in DetectContents :
                      detect_html_category(Put(fs, d.path, FileNode(c)), d.path) = d.res

\* index.html whose content names a template and a component has been categorized
C2_Witness ==
    /\ detected # <<>>
    /\ FileNameOf(detected[1].path) = "index.html"
    /\ fs[detected[1].path].content = "component template"
    /\ detected[1].res.category = "Index"

\* C8: for an html file whose stem matches no file name rule and whose content is not
\* UTF-8 text, detect_html_category returns Ok(Unknown), as for empty content, and the
\* destination subfolder is html/other.
C8_UnreadableIsUnknown ==
    \A i \in 1..Len(detected) :
        LET d == detected[i]
        IN  (/\ ~IsNameRule(FirstMatch(LoweredStem(d.path), ""))
             /\ ~to_str_ok(fs[d.path].content))
            => /\ d.res = [ok |-> TRUE, category |-> "Unknown"]
               /\ d.res = detect_html_category(Put(fs, d.path, FileNode("")), d.path)
               /\ target_folder(fs, d.path) = "html/other"

\* about.html whose bytes are not UTF-8 but spell a keyword has been categorized
C8_Witness ==
    /\ detected # <<>>
    /\ FileNameOf(detected[1].path) = "about.html"
    /\ fs[detected[1].path].content = "~layout"
    /\ detected[1].res.category = "Unknown"

(***************************************************************************)
(* Properties of the report (SpecReport).                                  *)
(***************************************************************************)
RECURSIVE SumOfLengths(_, _)
SumOfLengths(files_moved, keys) ==
    IF keys = {} THEN 0
    ELSE LET k == CHOOSE x \in keys : TRUE
         IN  Len(files_moved[k]) + SumOfLengths(files_moved, keys \ {k})

\* C5: total_files is the sum of the lengths of the lists of files_moved, and the last
\* call add_file_moved(ext, folder, name) has appended name at the end of the list of
\* "ext -> folder" (a new list when the key was absent), raised total_files by exactly
\* 1 and left the list of every other key as it was.
C5_ReportTotals ==
    /\ report.total_files = SumOfLengths(report.files_moved, DOMAIN report.files_moved)
    /\ \A i \in 1..Len(lastCall) :
          LET c == lastCall[i]
              key == c.extension \o " -> " \o c.folder
              was == c.before.files_moved
          IN  /\ DOMAIN report.files_moved = DOMAIN was \cup {key}
              /\ report.files_moved[key] =
                    (IF key \in DOMAIN was THEN was[key] ELSE <<>>) \o <<c.filename>>
              /\ \A k \in DOMAIN was \ {key} : report.files_moved[k] = was[k]
              /\ report.total_files = c.before.total_files + 1

\* a call has appended to a list that was not empty, beside another key
C5_Witness ==
    /\ lastCall # <<>>
    /\ "txt -> txt" \in DOMAIN lastCall[1].before.files_moved
    /\ "html -> html/index" \in DOMAIN lastCall[1].before.files_moved
    /\ lastCall[1].extension = "txt" /\ lastCall[1].folder = "txt"
    /\ Len(report.files_moved["txt -> txt"]) = 2
    /\ report.total_files = MaxCalls

(***************************************************************************)
(* Properties of a run of sort_files (Spec).                               *)
(***************************************************************************)
\* the regular files directly inside the source directory of file system f
SourceFiles(f) == {n \in Children(f, source_dir) : is_file(f, source_dir \o <<n>>)}

Range(seq) == {seq[i] : i \in 1..Len(seq)}

\* the paths of the files below the target directory
TargetFiles(f) == {p \in DOMAIN f : IsPrefix(target_dir, p) /\ p # target_dir /\ is_file(f, p)}

\* the tree below the target directory
TargetTree(f) == [p \in {q \in DOMAIN f : IsPrefix(target_dir, q)} |-> f[p]]

\* C4: at every step report.total_files is the number of copies completed so far in
\* this run; a run that returns Ok returns the report, whose total_files is the number
\* of regular files directly inside the source directory, each copied once, and nothing
\* of a subdirectory has been copied.
C4_TotalCountsCopies ==
    /\ report.total_files = Len(written)
    /\ pc = "done" =>
          /\ result = Ok(report)
          /\ report.total_files = Cardinality(SourceFiles(fs_before))
          /\ {w[1] : w \in Range(written)} = {source_dir \o <<n>> : n \in SourceFiles(fs_before)}

\* a run over two regular files and a subdirectory has returned
C4_Witness ==
    /\ pc = "done"
    /\ report.total_files = 2
    /\ is_dir(fs_before, source_dir \o <<"sub">>)
    /\ is_file(fs, source_dir \o <<"sub", "in.txt">>)

\* C7: once an I/O operation of the run has failed, sort_files has returned the error
\* and nothing else: no report reaches the caller, no file is copied or recorded after
\* the failure, and the copies made before it are still in the target.
C7_ErrorAborts ==
    /\ faulted =>
          /\ pc = "failed"
          /\ result = [tag |-> "Err", value |-> <<>>]
          /\ afterFault = 0
          /\ \A w \in Range(written) : is_file(fs, w[2])
    /\ pc = "failed" => faulted
    /\ result.tag = "Ok" => ~faulted

\* a run has failed after one copy, with an entry of the listing not yet taken
C7_Witness ==
    /\ pc = "failed"
    /\ Len(written) = 1
    /\ \E n \in entries \ visited : is_file(fs, source_dir \o <<n>>)

\* the extension the claims speak of: lowercased, "no_extension" when there is none
LoweredExtension(name) ==
    IF HasExtension(name) THEN to_lowercase(ExtensionOf(name)) ELSE "no_extension"

HoldsCopy(f, dest, content) == is_file(f, dest) /\ f[dest].content = content

Lists(rep, key, name) ==
    key \in DOMAIN rep.files_moved /\ name \in Range(rep.files_moved[key])

\* C1: after a successful run, every regular file of the source directory whose
\* lowercased extension E is not html or htm has a copy at <target>/<E>/<filename>, and
\* the report lists its name under "E -> E" (E = no_extension without an extension).
C1_SortedByExtension ==
    pc = "done" =>
        \A n \in SourceFiles(fs_before) :
            LET E == LoweredExtension(n)
            IN  ~IsHtmlExt(E) =>
                    /\ HoldsCopy(fs, PathJoin(PathJoin(target_dir, E), n),
                                 fs_before[source_dir \o <<n>>].content)
                    /\ Lists(report, E \o " -> " \o E, n)

\* the folder names as the specification lists them
FolderOf ==
    [c \in HtmlCategory |->
        CASE c = "Index" -> "index"
          [] c = "Template" -> "templates"
          [] c = "Component" -> "components"
          [] c = "Page" -> "pages"
          [] c = "Unknown" -> "other"]

\* C3: after a successful run, every regular file whose extension is html or htm in any
\* case has a copy at <target>/html/<folder>/<filename> and is listed under
\* "<extension> -> html/<folder>", <folder> being the folder of its category: index,
\* templates, components, pages, other, five different names.
C3_HtmlByCategory ==
    /\ \A c, d \in HtmlCategory :
          /\ folder_name(c) = FolderOf[c]
          /\ c # d => folder_name(c) # folder_name(d)
    /\ pc = "done" =>
          \A n \in SourceFiles(fs_before) :
              LET E == LoweredExtension(n)
                  path == source_dir \o <<n>>
                  folder == FolderOf[detect_html_category(fs_before, path).category]
              IN  IsHtmlExt(E) =>
                      /\ HoldsCopy(fs, target_dir \o <<"html", folder, n>>,
                                   fs_before[path].content)
                      /\ Lists(report, E \o " -> html/" \o folder, n)

\* C6: after a run that succeeds or aborts, every regular file that was directly inside
\* the source directory before the run is still there, with the same content.
C6_SourceUntouched ==
    pc \in {"done", "failed"} =>
        \A n \in SourceFiles(fs_before) :
            HoldsCopy(fs, source_dir \o <<n>>, fs_before[source_dir \o <<n>>].content)

\* C10: after a successful run into a target that was empty, no two source files have
\* been written to the same destination path, and the target tree holds as many files
\* as report.total_files says.
C10_NoSharedDestination ==
    (pc = "done" /\ TargetFiles(fs_before) = {}) =>
        /\ \A i, j \in 1..Len(written) : i # j => written[i][2] # written[j][2]
        /\ Cardinality(TargetFiles(fs)) = report.total_files

(***************************************************************************)
(* Properties of two runs of sort_files (SpecTwice).                       *)
(***************************************************************************)
\* C9: when sort_files has succeeded twice, the target tree after the second run is
\* the one after the first, and the second report has the keys, the names under each
\* key and the total_files of the first.
C9_SecondRunSame ==
    Len(history) >= 2 =>
        LET first == history[1]
            second == history[2]
        IN  /\ TargetTree(second.fs) = TargetTree(first.fs)
            /\ DOMAIN second.report.files_moved = DOMAIN first.report.files_moved
            /\ \A k \in DOMAIN first.report.files_moved :
                  Range(second.report.files_moved[k]) = Range(first.report.files_moved[k])
            /\ second.report.total_files = first.report.total_files

====
